---- MODULE Spec2Model ----
(***************************************************************************)
(* Fiscal invoice signing and integrity chain of the restaurant back end   *)
(* (apps/payments): the stored Payment rows, the orders they belong to,    *)
(* and the request handlers that create, sign, change and delete them.     *)
(* Every handler is a sequence of database statements; a step of the model *)
(* is one statement (or a run of statements no other request can observe), *)
(* so that requests served by different workers interleave as they do on   *)
(* a database that gives each statement the committed state.               *)
(***************************************************************************)
EXTENDS Integers, Sequences, FiniteSets, TLC

\* ----------------------------------------------------------------- bounds
MaxPayments == 3        \* payment rows ever created (paymentID 1..MaxPayments)
MaxConcurrent == 1      \* payment rows created where every kind of save runs concurrently
MaxDay == 2             \* days the clock of date.today() runs through
MaxClock == 3           \* readings of datetime.now() by signers

Workers == {"w1", "w2"} \* request-handling workers
Orders == {1}           \* orders present at the start
DocTypes == {"FT", "FR"}
Dates == 1 .. MaxDay
PaymentIds == 1 .. MaxPayments

\* ------------------------------------------------------ program constants
NumberWidth == 5
iva_percentage == 15
FirstYear == 2025
HexDigestLength == 64
IudWidth == 45

\* date.today().year: day 1 is the last day of FirstYear, the days after it
\* belong to the next year.
YearOf(d) == IF d <= 1 THEN FirstYear ELSE FirstYear + 1

\* NULL of a nullable column, and the empty string.
Null == <<-1>>
EmptyStr == <<>>
NullNo == <<>>
NullDate == 0
NullRef == 0
NullStr == "NULL"

\* -------------------------------------------------- numbers as digit text
RECURSIVE Digits(_)
Digits(n) == IF n < 10 THEN <<n>> ELSE Digits(n \div 10) \o <<n % 10>>

RECURSIVE ZeroPad(_, _)
ZeroPad(ds, width) == IF Len(ds) >= width THEN ds ELSE ZeroPad(<<0>> \o ds, width)

\* f"{next_number:05d}"
FormatNumber(n) == ZeroPad(Digits(n), NumberWidth)

\* int(parts[2])
RECURSIVE ParseInt(_)
ParseInt(ds) == IF ds = <<>> THEN 0 ELSE ParseInt(SubSeq(ds, 1, Len(ds) - 1)) * 10 + ds[Len(ds)]

\* string order of two digit texts (the order of ORDER BY invoice_no)
RECURSIVE StrLess(_, _)
StrLess(a, b) ==
    IF b = <<>> THEN FALSE
    ELSE IF a = <<>> THEN TRUE
    ELSE IF a[1] # b[1] THEN a[1] < b[1]
    ELSE StrLess(Tail(a), Tail(b))

\* CompanySettings series configuration (its defaults), as used by series_map.
series_map(invoice_type) ==
    CASE invoice_type = "FT" -> "FT A"
      [] invoice_type = "NC" -> "NC A"
      [] invoice_type = "TV" -> "TV A"
      [] invoice_type = "FR" -> "FT A"
      [] OTHER -> "FT A"

\* ------------------------------------------------------------------ state
VARIABLES
    payments,   \* the apps_payment table: paymentID -> row
    orders,     \* the apps_order table: orderID -> row
    nextPk,     \* the next value of the paymentID sequence
    today,      \* date.today()
    clock,      \* datetime.now()
    pc,         \* per worker: where its request handler stands
    op,         \* per worker: the view it is serving
    pk,         \* per worker: the pk of the request
    inst,       \* per worker: the Payment instance held in memory
    ordc,       \* per worker: the Order instance held in memory
    wasSigned,  \* per worker: is_signed as the view read it when it loaded the row
    signLog,    \* history: the signings that committed, oldest first
    reply       \* the answer of the last read-only request

vars == <<payments, orders, nextPk, today, clock, pc, op, pk, inst, ordc, wasSigned, signLog, reply>>

\* What the workers hold.
local == <<pc, op, pk, inst, ordc, wasSigned>>

\* An in-memory instance that holds nothing (no request in progress).
NoInst ==
    [order |-> 0, amount |-> 0, payment_status |-> "PENDING", invoice_no |-> NullNo,
     invoice_date |-> NullDate, invoice_type |-> "FT", invoice_hash |-> Null,
     previous_invoice_hash |-> Null, iud |-> Null, is_signed |-> FALSE,
     signed_at |-> 0, customer_tax_id |-> NullStr, customer_name |-> NullStr,
     referenced_document |-> NullRef, credit_note_reason |-> NullStr]

NoOrder == [id |-> 0, totalAmount |-> 0, grandTotal |-> 0, paymentStatus |-> "PENDING"]

\* No read-only request has been answered.
NoReply == [view |-> "none", pk |-> 0, arg |-> <<>>, result |-> "none"]

\* The row a table holds after an INSERT or a full-row UPDATE of key k.
Upsert(table, k, row) == [x \in DOMAIN table \cup {k} |-> IF x = k THEN row ELSE table[x]]

\* The table without the rows of keys ks.
Without(table, ks) == [x \in DOMAIN table \ ks |-> table[x]]

\* ------------------------------------------------------------ FiscalService
\* Payment.objects.filter(invoice_no__startswith=f"{series}/{year}/",
\*                        invoice_type=invoice_type)
NumberedRows(db, series, year, invoice_type) ==
    {p \in DOMAIN db : /\ db[p].invoice_no # NullNo
                       /\ db[p].invoice_no[1] = series
                       /\ db[p].invoice_no[2] = year
                       /\ db[p].invoice_type = invoice_type}

\* .order_by('-invoice_no').first(): the row whose number text sorts last.
LastNumbered(db, rows) ==
    CHOOSE p \in rows : \A q \in rows : ~StrLess(db[p].invoice_no[3], db[q].invoice_no[3])

generate_invoice_number(db, invoice_type, day) ==
    LET series == series_map(invoice_type)
        current_year == YearOf(day)
        rows == NumberedRows(db, series, current_year, invoice_type)
        next_number == IF rows = {} THEN 1
                       ELSE ParseInt(db[LastNumbered(db, rows)].invoice_no[3]) + 1
    IN  <<series, current_year, FormatNumber(next_number)>>

\* Payment.objects.filter(invoice_type=..., is_signed=True, invoice_hash__isnull=False)
SignedRows(db, invoice_type) ==
    {p \in DOMAIN db : /\ db[p].invoice_type = invoice_type
                       /\ db[p].is_signed
                       /\ db[p].invoice_hash # Null}

\* .order_by('-invoice_date', '-paymentID').first()
LastByDateAndId(db, rows) ==
    CHOOSE p \in rows : \A q \in rows :
        \/ db[q].invoice_date < db[p].invoice_date
        \/ (db[q].invoice_date = db[p].invoice_date /\ q <= p)

get_previous_invoice_hash(db, invoice_type) ==
    LET rows == SignedRows(db, invoice_type)
    IN  IF rows = {} THEN EmptyStr ELSE db[LastByDateAndId(db, rows)].invoice_hash

\* SHA-256 of date + number + total + previous hash: a collision-free function
\* of the text it is given, kept here as that text.
calculate_invoice_hash(payment, grandTotal) ==
    <<payment.invoice_date,
      payment.invoice_no,
      grandTotal,
      IF payment.previous_invoice_hash = Null THEN EmptyStr
      ELSE payment.previous_invoice_hash>>

\* A series text with its blanks removed.
StripBlanks(series) ==
    CASE series = "FT A" -> "FTA"
      [] series = "NC A" -> "NCA"
      [] series = "TV A" -> "TVA"
      [] OTHER -> series

\* payment.invoice_no.replace('/', '').replace(' ', ''): the series without
\* its blank, then the digits of the year and of the number run together.
invoice_no_clean(invoice_no) ==
    IF invoice_no = NullNo THEN <<>>
    ELSE <<StripBlanks(invoice_no[1])>> \o Digits(invoice_no[2]) \o invoice_no[3]

\* text[:width]: the length of a text of length len cut to width characters.
Truncate(len, width) == IF len < width THEN len ELSE width

\* SHA-256 of country + date + tax id + type + cleaned number, cut to 45
\* characters: country and tax id are fixed; the digest is a collision-free
\* function of the text it is given, kept here as that text with the length
\* of what is left of the digest.
generate_iud(payment) ==
    <<payment.invoice_date, payment.invoice_type, invoice_no_clean(payment.invoice_no),
      Truncate(HexDigestLength, IudWidth)>>

validate_hash_chain(payment, grandTotal) ==
    calculate_invoice_hash(payment, grandTotal) = payment.invoice_hash

\* ------------------------------------------------------------ Payment model
\* Payment.clean with the test of the referenced document's type inverted.
clean_inverted(db, payment) ==
    IF payment.invoice_type = "NC"
    THEN /\ payment.referenced_document # NullRef
         /\ payment.credit_note_reason # NullStr
         /\ payment.referenced_document \in DOMAIN db
         /\ db[payment.referenced_document].invoice_type = "NC"
    ELSE payment.referenced_document = NullRef

\* Payment.clean: the credit-note rules.
clean(db, payment) ==
    IF payment.invoice_type = "NC"
    THEN /\ payment.referenced_document # NullRef
         /\ payment.credit_note_reason # NullStr
         /\ payment.referenced_document \in DOMAIN db
         /\ db[payment.referenced_document].invoice_type # "NC"
    ELSE payment.referenced_document = NullRef

\* unique=True on invoice_no and on iud: no other row holds the same non-NULL
\* value. Checked by full_clean (validate_unique) and again by the database.
unique_ok(db, id, payment) ==
    \A q \in DOMAIN db \ {id} :
        /\ (payment.invoice_no # NullNo => db[q].invoice_no # payment.invoice_no)
        /\ (payment.iud # Null => db[q].iud # payment.iud)

\* Model.full_clean as Payment.save calls it: field validation (the order of
\* the foreign key exists), clean() and validate_unique().
full_clean(db, ords, id, payment) ==
    /\ payment.order \in DOMAIN ords
    /\ clean(db, payment)
    /\ unique_ok(db, id, payment)

\* Payment.save without its immutability check.
save_guard_off(db, id) == TRUE

\* The immutability check of Payment.save: the stored row of this pk, read
\* again, is not signed (a pk with no stored row passes).
save_guard(db, id) == id \in DOMAIN db => ~db[id].is_signed

\* Order.update_payment_status on the in-memory order o, given the payments
\* stored when it runs: the status is recomputed and the whole order row is
\* written from the in-memory instance.
update_payment_status(ords, db, o) ==
    LET paid == \E p \in DOMAIN db : db[p].order = o.id /\ db[p].payment_status = "COMPLETED"
    IN  Upsert(ords, o.id, [totalAmount |-> o.totalAmount, grandTotal |-> o.grandTotal,
                            paymentStatus |-> IF paid THEN "PAID" ELSE "PENDING"])

\* The in-memory Order instance of a stored order.
LoadOrder(ords, o) == [id |-> o, totalAmount |-> ords[o].totalAmount,
                       grandTotal |-> ords[o].grandTotal,
                       paymentStatus |-> ords[o].paymentStatus]

\* Order.calculate_totals: the grand total of an order whose items sum to
\* total_amount.
GrandTotalOf(total_amount) == total_amount + (total_amount * iva_percentage) \div 100

\* ------------------------------------------------------------------- Init
Init ==
    /\ payments = << >>
    /\ orders = [o \in Orders |-> [totalAmount |-> 20 * o, grandTotal |-> GrandTotalOf(20 * o),
                                   paymentStatus |-> "PENDING"]]
    /\ nextPk = 1
    /\ today = 1
    /\ clock = 0
    /\ pc = [w \in Workers |-> "idle"]
    /\ op = [w \in Workers |-> "none"]
    /\ pk = [w \in Workers |-> 0]
    /\ inst = [w \in Workers |-> NoInst]
    /\ ordc = [w \in Workers |-> NoOrder]
    /\ wasSigned = [w \in Workers |-> FALSE]
    /\ signLog = << >>
    /\ reply = NoReply

\* The day changes.
Tick ==
    /\ today < MaxDay
    /\ today' = today + 1
    /\ UNCHANGED <<payments, orders, nextPk, clock, local, signLog, reply>>

\* PaymentSerializer.create: a new payment of order o is stored as a draft
\* (Payment.save inserts it and updates the order), then the order is marked
\* paid.
CreatePayment(o, t, d) ==
    LET row == [NoInst EXCEPT !.order = o, !.amount = orders[o].totalAmount,
                              !.payment_status = "COMPLETED",
                              !.invoice_type = t, !.invoice_date = d]
    IN  /\ nextPk <= MaxPayments
        /\ o \in DOMAIN orders
        /\ full_clean(payments, orders, nextPk, row)
        /\ payments' = Upsert(payments, nextPk, row)
        /\ orders' = [orders EXCEPT ![o].paymentStatus = "PAID"]
        /\ nextPk' = nextPk + 1
        /\ UNCHANGED <<today, clock, local, signLog, reply>>

\* Reason codes a request may carry (NullStr: none given).
Reasons == {NullStr, "M01"}

\* The instance PaymentSerializer.create builds for a credit note of order o
\* that references document ref with a reason.
CreditNoteOf(o, ref, reason) ==
    [NoInst EXCEPT !.order = o, !.amount = orders[o].totalAmount,
                   !.payment_status = "COMPLETED", !.invoice_type = "NC",
                   !.referenced_document = ref, !.credit_note_reason = reason]

\* PaymentSerializer.create with invoice_type NC: the credit note is stored as
\* a draft, if Payment.save accepts it.
CreateCreditNote(o, ref, reason) ==
    LET row == CreditNoteOf(o, ref, reason)
    IN  /\ nextPk <= MaxPayments
        /\ o \in DOMAIN orders
        /\ full_clean(payments, orders, nextPk, row)
        /\ payments' = Upsert(payments, nextPk, row)
        /\ orders' = [orders EXCEPT ![o].paymentStatus = "PAID"]
        /\ nextPk' = nextPk + 1
        /\ UNCHANGED <<today, clock, local, signLog, reply>>

\* A stored payment is loaded, its type, referenced document and reason are
\* set, and it is saved with Payment.save (validation, the check of the
\* stored is_signed, the write, the update of the order).
EditDraft(p, t, ref, reason) ==
    LET row == [payments[p] EXCEPT !.invoice_type = t, !.referenced_document = ref,
                                   !.credit_note_reason = reason]
    IN  /\ p \in DOMAIN payments
        /\ row # payments[p]
        /\ full_clean(payments, orders, p, row)
        /\ save_guard(payments, p)
        /\ payments' = Upsert(payments, p, row)
        /\ orders' = update_payment_status(orders, payments', LoadOrder(orders, row.order))
        /\ UNCHANGED <<nextPk, today, clock, local, signLog, reply>>

\* --------------------------------------------------------- request workers
\* Worker w, serving view for payment p (which it loaded with is_signed =
\* was), moves to next holding the payment instance i and the order instance
\* o. At "ok" (a success response) and "failed" (an error response) the
\* request is over and the worker holds no instance any more; the view, what
\* it read of is_signed and the answer stay until its next request.
Move(w, view, p, was, next, i, o) ==
    LET over == next \in {"ok", "failed"}
    IN  /\ pc' = [pc EXCEPT ![w] = next]
        /\ op' = [op EXCEPT ![w] = view]
        /\ wasSigned' = [wasSigned EXCEPT ![w] = was]
        /\ pk' = [pk EXCEPT ![w] = IF over THEN 0 ELSE p]
        /\ inst' = [inst EXCEPT ![w] = IF over THEN NoInst ELSE i]
        /\ ordc' = [ordc EXCEPT ![w] = IF over THEN NoOrder ELSE o]

\* The next step of the request worker w is serving.
Goto(w, next, i, o) == Move(w, op[w], pk[w], wasSigned[w], next, i, o)

\* A worker that serves no request takes a request of a view for payment p:
\* the view loads the row (get_object_or_404) and goes on to next.
Take(w, view, p, next, i, o) ==
    /\ pc[w] \in {"idle", "ok", "failed"}
    /\ p \in DOMAIN payments
    /\ Move(w, view, p, payments[p].is_signed, next, i, o)

\* ---------------------------------------------------------- sign requests
\* SignInvoiceView.post without its check of is_signed.
SignViewNextUnchecked(payment) == "number"

\* The check of SignInvoiceView.post on the instance it loaded: a signed
\* payment is refused, a draft goes on to sign_invoice.
SignViewNext(payment) == IF payment.is_signed THEN "failed" ELSE "number"

\* SignInvoiceView.post up to the call of sign_invoice.
SignView(w, p) ==
    /\ Take(w, "sign", p, SignViewNext(payments[p]), payments[p], NoOrder)
    /\ UNCHANGED <<payments, orders, nextPk, today, clock, signLog, reply>>

\* sign_invoice steps 1 and 2: the number, unless the instance has one, and
\* the date, unless the instance has one.
SignNumber(w) ==
    /\ pc[w] = "number"
    /\ Goto(w, "chain",
            [inst[w] EXCEPT
               !.invoice_no = IF @ = NullNo
                              THEN generate_invoice_number(payments, inst[w].invoice_type, today)
                              ELSE @,
               !.invoice_date = IF @ = NullDate THEN today ELSE @],
            ordc[w])
    /\ UNCHANGED <<payments, orders, nextPk, today, clock, signLog, reply>>

\* sign_invoice that marks the instance signed before the hash is computed and
\* never computes it.
SignedWithoutHash(payment, db, grandTotal, now) ==
    [payment EXCEPT !.previous_invoice_hash = get_previous_invoice_hash(db, payment.invoice_type),
                    !.iud = generate_iud(payment), !.is_signed = TRUE, !.signed_at = now]

\* sign_invoice that computes the hash before it has set the previous hash.
SignedHashFirst(payment, db, grandTotal, now) ==
    [payment EXCEPT !.invoice_hash = calculate_invoice_hash(payment, grandTotal),
                    !.previous_invoice_hash = get_previous_invoice_hash(db, payment.invoice_type),
                    !.iud = generate_iud(payment), !.is_signed = TRUE, !.signed_at = now]

\* sign_invoice that marks the instance signed and leaves out the time.
SignedUnstamped(payment, db, grandTotal, now) ==
    LET chained == [payment EXCEPT
                      !.previous_invoice_hash = get_previous_invoice_hash(db, payment.invoice_type)]
        hashed == [chained EXCEPT !.invoice_hash = calculate_invoice_hash(chained, grandTotal)]
    IN  [hashed EXCEPT !.iud = generate_iud(hashed), !.is_signed = TRUE]

\* sign_invoice that computes the IUD with the day of signing for the date.
SignedIudOfToday(payment, db, grandTotal, now) ==
    LET chained == [payment EXCEPT
                      !.previous_invoice_hash = get_previous_invoice_hash(db, payment.invoice_type)]
        hashed == [chained EXCEPT !.invoice_hash = calculate_invoice_hash(chained, grandTotal)]
    IN  [hashed EXCEPT !.iud = generate_iud([hashed EXCEPT !.invoice_date = today]),
                       !.is_signed = TRUE, !.signed_at = now]

\* sign_invoice steps 3 to 8 on the instance: previous hash, hash, IUD, the
\* signed mark and its time.
Signed(payment, db, grandTotal, now) ==
    LET chained == [payment EXCEPT
                      !.previous_invoice_hash = get_previous_invoice_hash(db, payment.invoice_type)]
        hashed == [chained EXCEPT !.invoice_hash = calculate_invoice_hash(chained, grandTotal)]
    IN  [hashed EXCEPT !.iud = generate_iud(hashed), !.is_signed = TRUE, !.signed_at = now]

\* payment.order: the order instance the payment already holds,
\* or the stored order loaded now.
OrderOf(w) == IF ordc[w] # NoOrder THEN ordc[w] ELSE LoadOrder(orders, inst[w].order)

\* sign_invoice steps 3 to 8; the hash loads the order of the payment, and a
\* payment whose order is gone fails there.
SignChain(w) ==
    /\ pc[w] = "chain"
    /\ IF ordc[w] = NoOrder /\ inst[w].order \notin DOMAIN orders
       THEN /\ Goto(w, "failed", inst[w], ordc[w])
            /\ UNCHANGED clock
       ELSE /\ clock < MaxClock
            /\ clock' = clock + 1
            /\ Goto(w, "save_check",
                    Signed(inst[w], payments, OrderOf(w).grandTotal, clock + 1),
                    OrderOf(w))
    /\ UNCHANGED <<payments, orders, nextPk, today, signLog, reply>>

\* Payment.save up to the write: full_clean, then the stored row is read again
\* and a signed one refuses the save.
SaveChecks(db, ords, id, payment) ==
    /\ full_clean(db, ords, id, payment)
    /\ save_guard(db, id)

SaveCheck(w) ==
    /\ pc[w] = "save_check"
    /\ Goto(w, IF SaveChecks(payments, orders, pk[w], inst[w]) THEN "save_write" ELSE "failed",
            inst[w], ordc[w])
    /\ UNCHANGED <<payments, orders, nextPk, today, clock, signLog, reply>>

\* The entry of the history for a signing that commits.
LogEntry(id, payment) ==
    [id |-> id, type |-> payment.invoice_type, no |-> payment.invoice_no,
     hash |-> payment.invoice_hash, prev |-> payment.previous_invoice_hash]

\* Payment.save from the write on: the whole row is written from memory (the
\* database refuses a duplicate invoice_no or iud and a missing order) and the
\* order is updated; for a signing, sign_invoice's transaction commits.
SaveWrite(w) ==
    /\ pc[w] = "save_write"
    /\ IF unique_ok(payments, pk[w], inst[w]) /\ inst[w].order \in DOMAIN orders
       THEN /\ payments' = Upsert(payments, pk[w], inst[w])
            /\ orders' = update_payment_status(orders, payments', OrderOf(w))
            /\ signLog' = IF op[w] \in {"sign", "submit"}
                          THEN Append(signLog, LogEntry(pk[w], inst[w]))
                          ELSE signLog
            /\ Goto(w, IF op[w] = "submit" THEN "efatura" ELSE "ok", inst[w], ordc[w])
       ELSE /\ Goto(w, "failed", inst[w], ordc[w])
            /\ UNCHANGED <<payments, orders, signLog, reply>>
    /\ UNCHANGED <<nextPk, today, clock, reply>>

\* ----------------------------------------------------------- change requests
\* The change form of PaymentAdmin (payment_status is one of its editable
\* fields): the row is loaded, the field is set on the instance, and the
\* instance is saved with Payment.save.
ChangeView(w, p, status) ==
    /\ p \in DOMAIN payments
    /\ status # payments[p].payment_status
    /\ Take(w, "change", p, "save_check", [payments[p] EXCEPT !.payment_status = status], NoOrder)
    /\ UNCHANGED <<payments, orders, nextPk, today, clock, signLog, reply>>

\* ------------------------------------------------- sign-and-submit requests
\* SignAndSubmitEFaturaView.post after the customer data: a draft is signed,
\* a signed payment goes to the e-Fatura step.
SubmitNext(payment) == IF payment.is_signed THEN "efatura" ELSE "number"

\* SignAndSubmitEFaturaView.post up to the first database write: customer data
\* given in the request is put on the instance and saved (update_fields).
SubmitView(w, p, tax) ==
    /\ IF tax # NullStr
       THEN Take(w, "submit", p, "cust_check",
                 [payments[p] EXCEPT !.customer_tax_id = tax, !.customer_name = "Cliente"],
                 NoOrder)
       ELSE Take(w, "submit", p, SubmitNext(payments[p]), payments[p], NoOrder)
    /\ UNCHANGED <<payments, orders, nextPk, today, clock, signLog, reply>>

\* Payment.save(update_fields=[customer_tax_id, customer_name]) up to the write.
CustCheck(w) ==
    /\ pc[w] = "cust_check"
    /\ Goto(w, IF SaveChecks(payments, orders, pk[w], inst[w]) THEN "cust_write" ELSE "failed",
            inst[w], ordc[w])
    /\ UNCHANGED <<payments, orders, nextPk, today, clock, signLog, reply>>

\* Payment.save(update_fields=...) from the write on: the two columns of the
\* stored row are written (no stored row is an error), the order is loaded and
\* updated; then the view goes on as without customer data.
CustWrite(w) ==
    /\ pc[w] = "cust_write"
    /\ IF pk[w] \in DOMAIN payments /\ inst[w].order \in DOMAIN orders
       THEN /\ payments' = [payments EXCEPT ![pk[w]].customer_tax_id = inst[w].customer_tax_id,
                                            ![pk[w]].customer_name = inst[w].customer_name]
            /\ orders' = update_payment_status(orders, payments', LoadOrder(orders, inst[w].order))
            /\ Goto(w, SubmitNext(inst[w]), inst[w], LoadOrder(orders, inst[w].order))
       ELSE /\ Goto(w, "failed", inst[w], ordc[w])
            /\ UNCHANGED <<payments, orders>>
    /\ UNCHANGED <<nextPk, today, clock, signLog, reply>>

\* EFaturaService(payment).submit_to_dnre() in simulation mode: the XML of the
\* signed payment is written to a file; nothing stored changes.
SubmitEFatura(w) ==
    /\ pc[w] = "efatura"
    /\ Goto(w, IF inst[w].is_signed /\ inst[w].order \in DOMAIN orders THEN "ok" ELSE "failed",
            inst[w], ordc[w])
    /\ UNCHANGED <<payments, orders, nextPk, today, clock, signLog, reply>>

\* --------------------------------------------------------- delete requests
\* DeletePaymentView.delete up to the delete: the payment and its order are
\* loaded into memory.
DeleteView(w, p) ==
    /\ Take(w, "delete", p, "delete", payments[p], LoadOrder(orders, payments[p].order))
    /\ UNCHANGED <<payments, orders, nextPk, today, clock, signLog, reply>>

\* on_delete=RESTRICT in the place of PROTECT: only a credit note outside the
\* deleted set keeps the rows it references from being deleted.
Restricted(db, ids) ==
    \E q \in DOMAIN db \ ids : db[q].referenced_document \in ids

\* on_delete=PROTECT of referenced_document: a set of rows one of which some
\* stored row references is not deleted, also when the referencing row is in
\* the set.
Protected(db, ids) ==
    \E q \in DOMAIN db : db[q].referenced_document \in ids

\* The check of Payment.delete: a signed instance is not deleted.
delete_guard(payment) == ~payment.is_signed

\* Payment.delete on the in-memory instance, then the view updates the order.
DeleteExec(w) ==
    /\ pc[w] = "delete"
    /\ IF delete_guard(inst[w]) /\ ~Protected(payments, {pk[w]})
       THEN /\ payments' = Without(payments, {pk[w]})
            /\ orders' = update_payment_status(orders, payments', ordc[w])
            /\ Goto(w, "ok", inst[w], ordc[w])
       ELSE /\ Goto(w, "failed", inst[w], ordc[w])
            /\ UNCHANGED <<payments, orders>>
    /\ UNCHANGED <<nextPk, today, clock, signLog, reply>>

\* DeleteOrderView.delete: the order is deleted, and with it (on_delete=CASCADE
\* of Payment.order) every payment of the order.
DeleteOrder(o) ==
    LET rows == {p \in DOMAIN payments : payments[p].order = o}
    IN  /\ o \in DOMAIN orders
        /\ ~Protected(payments, rows)
        /\ payments' = Without(payments, rows)
        /\ orders' = Without(orders, {o})
        /\ UNCHANGED <<nextPk, today, clock, local, signLog, reply>>

\* ------------------------------------------------------------ admin actions
\* PaymentAdmin.mark_as_completed: queryset.update(payment_status='COMPLETED')
\* on the selected rows.
mark_as_completed(selected) ==
    /\ selected # {} /\ selected \subseteq DOMAIN payments
    /\ payments' = [p \in DOMAIN payments |->
                      IF p \in selected THEN [payments[p] EXCEPT !.payment_status = "COMPLETED"]
                      ELSE payments[p]]
    /\ payments' # payments
    /\ UNCHANGED <<orders, nextPk, today, clock, local, signLog, reply>>

\* PaymentAdmin.mark_as_failed: queryset.update(payment_status='FAILED').
mark_as_failed(selected) ==
    /\ selected # {} /\ selected \subseteq DOMAIN payments
    /\ payments' = [p \in DOMAIN payments |->
                      IF p \in selected THEN [payments[p] EXCEPT !.payment_status = "FAILED"]
                      ELSE payments[p]]
    /\ payments' # payments
    /\ UNCHANGED <<orders, nextPk, today, clock, local, signLog, reply>>

\* ------------------------------------------------------------ order changes
\* Sums of price * quantity the items of an order can have.
OrderTotals == {20, 40}

\* The patch of an order (items added, changed or removed): the totals are
\* computed again from the items and the order row is written.
PatchOrder(o, total_amount) ==
    /\ o \in DOMAIN orders
    /\ total_amount # orders[o].totalAmount
    /\ orders' = [orders EXCEPT ![o].totalAmount = total_amount,
                                ![o].grandTotal = GrandTotalOf(total_amount)]
    /\ UNCHANGED <<payments, nextPk, today, clock, local, signLog, reply>>

\* ------------------------------------------------------- read-only requests
\* ValidateInvoiceHashView.get without its check of is_signed.
ValidateUnchecked(db, ords, p) ==
    IF db[p].order \notin DOMAIN ords THEN "error"
    ELSE IF validate_hash_chain(db[p], ords[db[p].order].grandTotal) THEN "valid"
    ELSE "invalid"

\* The answer of ValidateInvoiceHashView.get for payment p: a draft is an
\* error, a signed payment is answered with the result of validate_hash_chain
\* on the row and the order as they are stored.
ValidateInvoiceHashView(db, ords, p) ==
    IF ~db[p].is_signed THEN "not_signed"
    ELSE IF db[p].order \notin DOMAIN ords THEN "error"
    ELSE IF validate_hash_chain(db[p], ords[db[p].order].grandTotal) THEN "valid"
    ELSE "invalid"

\* A request to ValidateInvoiceHashView for payment p is answered.
ValidateView(p) ==
    /\ p \in DOMAIN payments
    /\ reply' = [view |-> "validate", pk |-> p, arg |-> <<>>,
                 result |-> ValidateInvoiceHashView(payments, orders, p)]
    /\ reply' # reply
    /\ UNCHANGED <<payments, orders, nextPk, today, clock, local, signLog>>

\* The answer of GenerateEFaturaView.post for payment p: a draft is an error;
\* for a signed payment the XML is built from the payment and its order and
\* written to a file (simulation mode).
GenerateEFaturaView(db, ords, p) ==
    IF ~db[p].is_signed THEN "not_signed"
    ELSE IF db[p].order \notin DOMAIN ords THEN "error"
    ELSE "ok"

\* The answer of DownloadEFaturaXMLView.get for payment p: a draft is an
\* error; for a signed payment the XML is built and returned.
DownloadEFaturaXMLView(db, ords, p) ==
    IF ~db[p].is_signed THEN "not_signed"
    ELSE IF db[p].order \notin DOMAIN ords THEN "error"
    ELSE "ok"

\* A request to GenerateEFaturaView for payment p is answered.
GenerateView(p) ==
    /\ p \in DOMAIN payments
    /\ reply' = [view |-> "generate", pk |-> p, arg |-> <<>>,
                 result |-> GenerateEFaturaView(payments, orders, p)]
    /\ reply' # reply
    /\ UNCHANGED <<payments, orders, nextPk, today, clock, local, signLog>>

\* A request to DownloadEFaturaXMLView for payment p is answered.
DownloadView(p) ==
    /\ p \in DOMAIN payments
    /\ reply' = [view |-> "download", pk |-> p, arg |-> <<>>,
                 result |-> DownloadEFaturaXMLView(payments, orders, p)]
    /\ reply' # reply
    /\ UNCHANGED <<payments, orders, nextPk, today, clock, local, signLog>>

\* partial_amount of a credit-note request when none is given.
NoAmount == -1

\* Partial amounts a credit-note request may carry.
PartialAmounts == {NoAmount, 0, 20, 30, 50}

\* IssueCreditNoteSerializer.validate_original_invoice_id: the invoice is
\* stored, signed, and no credit note.
validate_original_invoice_id(db, value) ==
    /\ value \in DOMAIN db
    /\ db[value].is_signed
    /\ db[value].invoice_type # "NC"

\* IssueCreditNoteSerializer.validate: a partial amount, if given, is positive
\* and not above the amount of the original invoice.
validate(db, original_invoice_id, partial_amount) ==
    partial_amount # NoAmount
    => (partial_amount > 0 /\ partial_amount <= db[original_invoice_id].amount)

\* IssueCreditNoteSerializer.is_valid on a request with a valid reason code.
IssueCreditNoteSerializer(db, original_invoice_id, partial_amount) ==
    IF /\ validate_original_invoice_id(db, original_invoice_id)
       /\ validate(db, original_invoice_id, partial_amount)
    THEN "accepted" ELSE "rejected"

\* A credit-note request for invoice p is validated.
IssueCreditNote(p, partial_amount) ==
    /\ reply' = [view |-> "issue", pk |-> p, arg |-> <<partial_amount>>,
                 result |-> IssueCreditNoteSerializer(payments, p, partial_amount)]
    /\ reply' # reply
    /\ UNCHANGED <<payments, orders, nextPk, today, clock, local, signLog>>

\* The place of a series in the alphabetical order of the series texts.
SeriesRank(series) ==
    CASE series = "FT A" -> 1
      [] series = "NC A" -> 2
      [] OTHER -> 3

\* ORDER BY invoice_no: the order of the invoice numbers as texts.
InvoiceNoLess(a, b) ==
    IF a[1] # b[1] THEN SeriesRank(a[1]) < SeriesRank(b[1])
    ELSE IF a[2] # b[2] THEN a[2] < b[2]
    ELSE StrLess(a[3], b[3])

\* The text of an element that _add_invoice does not emit.
Absent == <<"absent">>

\* SAFTExportService._add_sales_invoices, the queryset: the signed rows whose
\* invoice_date lies between start_date and end_date, both included.
ExportRows(db, start_date, end_date) ==
    {p \in DOMAIN db : /\ db[p].is_signed
                        /\ db[p].invoice_date >= start_date
                        /\ db[p].invoice_date <= end_date}

\* The rows of a queryset in the order of order_by('invoice_date', 'invoice_no').
RECURSIVE OrderByDateAndNo(_, _)
OrderByDateAndNo(db, rows) ==
    IF rows = {} THEN <<>>
    ELSE LET first == CHOOSE p \in rows : \A q \in rows \ {p} :
                          \/ db[p].invoice_date < db[q].invoice_date
                          \/ /\ db[p].invoice_date = db[q].invoice_date
                             /\ ~InvoiceNoLess(db[q].invoice_no, db[p].invoice_no)
         IN  <<first>> \o OrderByDateAndNo(db, rows \ {first})

\* SAFTExportService._add_invoice: the Invoice element of one payment. Hash is
\* emitted when invoice_hash is set, PreviousHash when a hash is emitted and
\* previous_invoice_hash is set.
_add_invoice(payment) ==
    LET has_hash == payment.invoice_hash \notin {Null, EmptyStr}
        has_previous == payment.previous_invoice_hash \notin {Null, EmptyStr}
    IN  [InvoiceNo |-> payment.invoice_no,
         InvoiceType |-> payment.invoice_type,
         InvoiceDate |-> payment.invoice_date,
         Hash |-> IF has_hash THEN payment.invoice_hash ELSE Absent,
         PreviousHash |-> IF has_hash /\ has_previous
                          THEN payment.previous_invoice_hash ELSE Absent]

\* The Invoice elements of the queryset, in its order.
Invoices(db, start_date, end_date) ==
    LET rows == OrderByDateAndNo(db, ExportRows(db, start_date, end_date))
    IN  [i \in 1 .. Len(rows) |-> _add_invoice(db[rows[i]])]

\* ExportSAFTView.get up to NumberOfEntries: payments.count() is a query of
\* its own, run before the rows are fetched.
ExportCount(start_date, end_date) ==
    /\ start_date <= end_date
    /\ reply.result # "counted"
    /\ reply' = [view |-> "export", pk |-> 0,
                 arg |-> <<start_date, end_date,
                           Cardinality(ExportRows(payments, start_date, end_date)), <<>>>>,
                 result |-> "counted"]
    /\ UNCHANGED <<payments, orders, nextPk, today, clock, local, signLog>>

\* An export that dates the undated drafts with the day it runs before it
\* fetches the rows.
ExportFetchDating ==
    /\ reply.view = "export" /\ reply.result = "counted"
    /\ payments' = [p \in DOMAIN payments |->
                      IF payments[p].invoice_date = NullDate
                      THEN [payments[p] EXCEPT !.invoice_date = today] ELSE payments[p]]
    /\ reply' = [reply EXCEPT !.arg[4] = Invoices(payments', reply.arg[1], reply.arg[2]),
                              !.result = "exported"]
    /\ UNCHANGED <<orders, nextPk, today, clock, local, signLog>>

\* ExportSAFTView.get from there: the rows are fetched and one Invoice element
\* is emitted for each.
ExportFetch ==
    /\ reply.view = "export" /\ reply.result = "counted"
    /\ reply' = [reply EXCEPT !.arg[4] = Invoices(payments, reply.arg[1], reply.arg[2]),
                              !.result = "exported"]
    /\ UNCHANGED <<payments, orders, nextPk, today, clock, local, signLog>>

\* ------------------------------------------------------------ specification
\* Customer tax ids a sign-and-submit request may carry (NullStr: none given).
TaxIds == {NullStr, "NIF"}

\* Values of payment_status.
Statuses == {"PENDING", "COMPLETED", "FAILED"}

\* Steps of a sign request (SignInvoiceView) of worker w.
SignStep(w) ==
    \/ \E p \in PaymentIds : SignView(w, p)
    \/ SignNumber(w)
    \/ SignChain(w)
    \/ SaveCheck(w)
    \/ SaveWrite(w)

\* Steps of a sign-and-submit request (SignAndSubmitEFaturaView) of worker w
\* that are its own.
SubmitStep(w) ==
    \/ \E p \in PaymentIds, tax \in TaxIds : SubmitView(w, p, tax)
    \/ CustCheck(w)
    \/ CustWrite(w)
    \/ SubmitEFatura(w)

\* Steps of a delete request (DeletePaymentView) of worker w.
DeleteStep(w) ==
    \/ \E p \in PaymentIds : DeleteView(w, p)
    \/ DeleteExec(w)

\* Concurrent requests that save payments: sign, sign-and-submit and the
\* change form, on at most MaxConcurrent drafts.
Next ==
    \/ \E o \in Orders, t \in DocTypes : nextPk <= MaxConcurrent /\ CreatePayment(o, t, NullDate)
    \/ \E w \in Workers : SignStep(w)
    \/ \E w \in Workers : SubmitStep(w)
    \/ \E w \in Workers, p \in PaymentIds, st \in Statuses : ChangeView(w, p, st)

Spec == Init /\ [][Next]_vars

\* Concurrent sign requests only, the day changing between their steps.
NextSign ==
    \/ \E o \in Orders, t \in DocTypes : CreatePayment(o, t, NullDate)
    \/ Tick
    \/ \E w \in Workers : SignStep(w)

SpecSign == Init /\ [][NextSign]_vars

\* Concurrent sign and delete requests.
NextDelete ==
    \/ \E o \in Orders, t \in DocTypes : CreatePayment(o, t, NullDate)
    \/ \E w \in Workers : SignStep(w)
    \/ \E w \in Workers : DeleteStep(w)

SpecDelete == Init /\ [][NextDelete]_vars

\* Requests served one at a time, on drafts created with or without a date,
\* the day changing.
NextSeq ==
    \/ \E o \in Orders, t \in DocTypes, d \in {NullDate} \cup Dates : CreatePayment(o, t, d)
    \/ Tick
    \/ SignStep("w1")
    \/ DeleteStep("w1")

SpecSeq == Init /\ [][NextSeq]_vars

\* Requests served one at a time, with the admin's bulk actions and the
\* deletion of orders.
NextAdmin ==
    \/ \E o \in Orders, t \in DocTypes : CreatePayment(o, t, NullDate)
    \/ SignStep("w1")
    \/ DeleteStep("w1")
    \/ \E o \in Orders : DeleteOrder(o)
    \/ \E sel \in SUBSET PaymentIds : mark_as_completed(sel)
    \/ \E sel \in SUBSET PaymentIds : mark_as_failed(sel)

SpecAdmin == Init /\ [][NextAdmin]_vars

\* Sign requests served one at a time while orders are patched and signed
\* payments are validated.
NextOrder ==
    \/ \E o \in Orders, t \in DocTypes : CreatePayment(o, t, NullDate)
    \/ SignStep("w1")
    \/ \E o \in Orders, total \in OrderTotals : PatchOrder(o, total)
    \/ \E p \in PaymentIds : ValidateView(p)

SpecOrder == Init /\ [][NextOrder]_vars

\* Credit notes: documents and credit notes are created, drafts are edited,
\* and sign requests are served one at a time.
NextCredit ==
    \/ \E o \in Orders : CreatePayment(o, "FT", NullDate)
    \/ \E o \in Orders, ref \in {NullRef} \cup PaymentIds, reason \in Reasons :
          CreateCreditNote(o, ref, reason)
    \/ \E p \in PaymentIds, t \in {"FT", "NC"}, ref \in {NullRef} \cup PaymentIds, reason \in Reasons :
          EditDraft(p, t, ref, reason)
    \/ SignStep("w1")

SpecCredit == Init /\ [][NextCredit]_vars

\* Credit-note requests are validated while orders are patched and sign
\* requests are served one at a time.
NextIssue ==
    \/ \E o \in Orders : CreatePayment(o, "FT", NullDate)
    \/ \E o \in Orders, total \in OrderTotals : PatchOrder(o, total)
    \/ SignStep("w1")
    \/ \E p \in PaymentIds, a \in PartialAmounts : IssueCreditNote(p, a)

SpecIssue == Init /\ [][NextIssue]_vars

\* Exports run while documents are created and signed over the days.
NextExport ==
    \/ Tick
    \/ \E o \in Orders : CreatePayment(o, "FT", NullDate)
    \/ SignStep("w1")
    \/ \E d1, d2 \in Dates : ExportCount(d1, d2)
    \/ ExportFetch

SpecExport == Init /\ [][NextExport]_vars

\* Requests that need a signed document are answered while documents are
\* created and sign requests are served one at a time.
NextRead ==
    \/ \E o \in Orders, t \in DocTypes : CreatePayment(o, t, NullDate)
    \/ SignStep("w1")
    \/ \E p \in PaymentIds : ValidateView(p)
    \/ \E p \in PaymentIds : GenerateView(p)
    \/ \E p \in PaymentIds : DownloadView(p)

SpecRead == Init /\ [][NextRead]_vars

\* Numbers of the signed FT documents a table starts with: none, the first
\* ones, and the last ones before and after the number outgrows NumberWidth
\* digits (the documents with smaller numbers are left out).
SeedTables == {<<>>, <<1>>, <<1, 2>>, <<99998, 99999>>, <<99999, 100000>>}

\* The FT document of order 1 that was signed on day 1 with number n, at
\* clock reading now, when the table was db.
SeedRow(db, n, now) ==
    Signed([NoInst EXCEPT !.order = 1, !.amount = 20, !.payment_status = "COMPLETED",
                          !.invoice_type = "FT", !.invoice_date = 1,
                          !.invoice_no = <<series_map("FT"), YearOf(1), FormatNumber(n)>>],
           db, GrandTotalOf(20), now)

\* The table that holds the documents numbered seed[1], seed[2], ... as
\* payments 1, 2, ..., signed in that order.
RECURSIVE SeedTable(_)
SeedTable(seed) ==
    IF seed = <<>> THEN << >>
    ELSE LET before == SeedTable(SubSeq(seed, 1, Len(seed) - 1))
         IN  Upsert(before, Len(seed), SeedRow(before, seed[Len(seed)], Len(seed)))

\* The state after the documents of a seed table were signed one at a time.
InitNumber ==
    \E seed \in SeedTables :
        /\ payments = SeedTable(seed)
        /\ orders = [o \in Orders |->
                       [totalAmount |-> 20 * o, grandTotal |-> GrandTotalOf(20 * o),
                        paymentStatus |-> IF seed = <<>> THEN "PENDING" ELSE "PAID"]]
        /\ nextPk = Len(seed) + 1
        /\ today = 1
        /\ clock = Len(seed)
        /\ pc = [w \in Workers |-> "idle"]
        /\ op = [w \in Workers |-> "none"]
        /\ pk = [w \in Workers |-> 0]
        /\ inst = [w \in Workers |-> NoInst]
        /\ ordc = [w \in Workers |-> NoOrder]
        /\ wasSigned = [w \in Workers |-> FALSE]
        /\ signLog = [i \in 1 .. Len(seed) |-> LogEntry(i, payments[i])]
        /\ reply = NoReply

\* Sign requests served one at a time on tables that hold numbered documents,
\* the day (and with it the year) changing.
NextNumber ==
    \/ \E o \in Orders, t \in DocTypes : CreatePayment(o, t, NullDate)
    \/ Tick
    \/ SignStep("w1")

SpecNumber == InitNumber /\ [][NextNumber]_vars

\* The orders of a restaurant with two open orders.
TwoOrders == {1, 2}

InitTwoOrders ==
    /\ payments = << >>
    /\ orders = [o \in TwoOrders |->
                   [totalAmount |-> 20 * o, grandTotal |-> GrandTotalOf(20 * o),
                    paymentStatus |-> "PENDING"]]
    /\ nextPk = 1
    /\ today = 1
    /\ clock = 0
    /\ pc = [w \in Workers |-> "idle"]
    /\ op = [w \in Workers |-> "none"]
    /\ pk = [w \in Workers |-> 0]
    /\ inst = [w \in Workers |-> NoInst]
    /\ ordc = [w \in Workers |-> NoOrder]
    /\ wasSigned = [w \in Workers |-> FALSE]
    /\ signLog = << >>
    /\ reply = NoReply

\* Documents and credit notes of two orders are created while payments and
\* orders are deleted.
NextRefDelete ==
    \/ \E o \in TwoOrders : CreatePayment(o, "FT", NullDate)
    \/ \E o \in TwoOrders, ref \in PaymentIds : CreateCreditNote(o, ref, "M01")
    \/ \E w \in Workers : DeleteStep(w)
    \/ \E o \in TwoOrders : DeleteOrder(o)

SpecRefDelete == InitTwoOrders /\ [][NextRefDelete]_vars

\* Sign requests and sign-and-submit requests served one at a time.
NextSubmit ==
    \/ \E o \in Orders, t \in DocTypes : CreatePayment(o, t, NullDate)
    \/ SignStep("w1")
    \/ SubmitStep("w1")

SpecSubmit == Init /\ [][NextSubmit]_vars

\* ------------------------------------------------------------------ claims
Max(S) == CHOOSE x \in S : \A y \in S : y <= x

Series == {series_map(t) : t \in DocTypes}
Years == {YearOf(d) : d \in Dates}

\* Stored rows that hold a number of series s and year y.
Numbered(s, y) ==
    {p \in DOMAIN payments : /\ payments[p].invoice_no # NullNo
                             /\ payments[p].invoice_no[1] = s
                             /\ payments[p].invoice_no[2] = y}

\* Signings of series s and year y that succeeded.
Signings(s, y) ==
    {i \in 1 .. Len(signLog) : signLog[i].no[1] = s /\ signLog[i].no[2] = y}

\* Worker w moved in this step.
Moved(w) == <<pc[w], op[w], pk[w], inst[w], ordc[w], wasSigned[w]>>'
              # <<pc[w], op[w], pk[w], inst[w], ordc[w], wasSigned[w]>>

\* C1: after N sign requests of a series and year have succeeded, the stored
\* numbers of that series and year are exactly 1..N, and no two rows share a
\* number.
C1_NumbersAreOneToN ==
    \A s \in Series, y \in Years :
        /\ {ParseInt(payments[p].invoice_no[3]) : p \in Numbered(s, y)}
              = 1 .. Cardinality(Signings(s, y))
        /\ \A p, q \in Numbered(s, y) : p # q => payments[p].invoice_no # payments[q].invoice_no

\* Worker w is signing and holds the number generate_invoice_number gave it.
Allocated(w) == op[w] = "sign" /\ pc[w] \in {"chain", "save_check", "save_write"}

\* C2: two sign requests in progress at the same time, for two documents of
\* one type, never hold the same number from generate_invoice_number.
C2_AllocationSerialized ==
    \A w1, w2 \in Workers :
        (/\ w1 # w2 /\ pk[w1] # pk[w2]
         /\ Allocated(w1) /\ Allocated(w2)
         /\ inst[w1].invoice_type = inst[w2].invoice_type)
        => inst[w1].invoice_no # inst[w2].invoice_no

\* Signings of the type of signing i that succeeded before it.
PriorOfType(i) == {j \in 1 .. i - 1 : signLog[j].type = signLog[i].type}

\* C3: the previous hash stored by a signing is the hash of the signing of the
\* same type that succeeded last before it, and empty when there is none.
C3_PreviousIsLastSigned ==
    \A i \in 1 .. Len(signLog) :
        signLog[i].prev = IF PriorOfType(i) = {} THEN EmptyStr
                          ELSE signLog[Max(PriorOfType(i))].hash

\* C4: no two stored signed rows of one type hold the same previous hash.
C4_NoFork ==
    \A p, q \in DOMAIN payments :
        (/\ p # q
         /\ payments[p].is_signed /\ payments[q].is_signed
         /\ payments[p].invoice_type = payments[q].invoice_type)
        => payments[p].previous_invoice_hash # payments[q].previous_invoice_hash

\* C5: a sign request for a payment that is signed when the view loads it is
\* answered with an error, and no stored payment changes in its steps.
C5_ResignRejected ==
    [][\A w \in Workers :
          (Moved(w) /\ op'[w] = "sign" /\ wasSigned'[w])
          => (pc'[w] = "failed" /\ payments' = payments)]_vars

\* A sign request for a signed payment has been answered with an error.
C5_Witness ==
    \E w \in Workers : op[w] = "sign" /\ wasSigned[w] /\ pc[w] = "failed"

\* C6: no payment is signed by more than one request.
C6_SignedOnce ==
    \A i, j \in 1 .. Len(signLog) : i # j => signLog[i].id # signLog[j].id

\* Worker w is about to run Payment.save on a payment whose stored row is
\* signed.
SaveOnSigned(w) ==
    /\ pc[w] \in {"save_check", "cust_check"}
    /\ pk[w] \in DOMAIN payments
    /\ payments[pk[w]].is_signed

\* C7: Payment.save started on a payment whose stored row is signed ends in an
\* error and changes no stored payment, whether it saves the whole row or
\* only some fields.
C7_SignedRowNotSaved ==
    [][\A w \in Workers :
          (SaveOnSigned(w) /\ Moved(w)) => (pc'[w] = "failed" /\ payments' = payments)]_vars

\* A sign-and-submit request with customer data and a change of the payment
\* status, each for a signed payment, have both been refused by Payment.save.
C7_Witness ==
    \E w1, w2 \in Workers :
        /\ op[w1] = "submit" /\ wasSigned[w1] /\ pc[w1] = "failed"
        /\ op[w2] = "change" /\ wasSigned[w2] /\ pc[w2] = "failed"

\* C8: no step changes a field of a stored signed payment.
C8_SignedRowsFrozen ==
    [][\A p \in DOMAIN payments \cap DOMAIN payments' :
          payments[p].is_signed => payments'[p] = payments[p]]_vars

\* C9: the delete of a payment whose stored row is signed fails and the row
\* stays.
C9_DeleteOfSignedFails ==
    [][\A w \in Workers :
          (/\ pc[w] = "delete" /\ Moved(w)
           /\ pk[w] \in DOMAIN payments
           /\ payments[pk[w]].is_signed)
          => (pc'[w] = "failed" /\ pk[w] \in DOMAIN payments')]_vars

\* C10: a payment that was signed is stored in every later state.
C10_SignedStaysStored ==
    \A i \in 1 .. Len(signLog) : signLog[i].id \in DOMAIN payments

\* A stored row carries every fiscal field of a signed document.
FullySigned(row) ==
    /\ row.is_signed
    /\ row.invoice_no # NullNo /\ row.invoice_date # NullDate
    /\ row.invoice_hash # Null /\ row.previous_invoice_hash # Null
    /\ row.iud # Null /\ row.signed_at # 0

\* A stored row carries none of the fields that signing sets.
BlankDraft(row) ==
    /\ ~row.is_signed
    /\ row.invoice_no = NullNo
    /\ row.invoice_hash = Null /\ row.previous_invoice_hash = Null
    /\ row.iud = Null /\ row.signed_at = 0

\* C11: every stored document is either a draft with none of the fields that
\* signing sets or a signed document with all of them, and a step in which a
\* sign request fails changes no stored document.
C11_SignAllOrNothing ==
    /\ [](\A p \in DOMAIN payments : BlankDraft(payments[p]) \/ FullySigned(payments[p]))
    /\ [][\A w \in Workers :
             (op[w] = "sign" /\ pc[w] # "failed" /\ pc'[w] = "failed") => payments' = payments]_vars

\* The only worker that has served requests has failed to sign a document it
\* loaded as a draft, after another document was signed, and a draft is stored.
C11_Witness ==
    \E w \in Workers :
        /\ op[w] = "sign" /\ pc[w] = "failed" /\ ~wasSigned[w]
        /\ \A v \in Workers \ {w} : op[v] = "none"
        /\ Len(signLog) > 0
        /\ \E p \in DOMAIN payments : BlankDraft(payments[p])

\* C12: in the state a successful signing leaves, hash verification of the
\* document it signed answers valid.
C12_ValidRightAfterSign ==
    [][signLog' # signLog
       => ValidateInvoiceHashView(payments', orders', signLog'[Len(signLog')].id) = "valid"]_vars

\* The document signed last has been verified, with the answer valid, with
\* an earlier document of its type signed before it.
C12_Witness ==
    /\ Len(signLog) > 1
    /\ signLog[Len(signLog)].prev # EmptyStr
    /\ reply.view = "validate" /\ reply.result = "valid"
    /\ reply.pk = signLog[Len(signLog)].id

\* The last signing of document p.
LastSigning(p) == Max({i \in 1 .. Len(signLog) : signLog[i].id = p})

\* The previous hash document p was signed with is the hash of the document
\* of its type signed last before it (empty when there is none).
Custody(p) ==
    LET i == LastSigning(p)
    IN  signLog[i].prev = IF PriorOfType(i) = {} THEN EmptyStr
                          ELSE signLog[Max(PriorOfType(i))].hash

\* C13: hash verification answers valid only for a document whose previous
\* hash is the hash of its chain predecessor.
C13_ValidOnlyWithCustody ==
    (reply.view = "validate" /\ reply.result = "valid") => Custody(reply.pk)

\* C14: hash verification of every stored signed document answers valid,
\* whatever has happened to its order since it was signed.
C14_TotalIsSnapshot ==
    \A p \in DOMAIN payments :
        payments[p].is_signed => ValidateInvoiceHashView(payments, orders, p) = "valid"

\* C15: a step in which a signing succeeds changes no order and no stored
\* document other than the one it signs.
C15_SignTouchesOnlyDocument ==
    [][signLog' # signLog
       => /\ orders' = orders
          /\ \A q \in DOMAIN payments \ {signLog'[Len(signLog')].id} :
                q \in DOMAIN payments' /\ payments'[q] = payments[q]]_vars

\* The credit-note rules of a stored row.
CreditNoteRules(p) ==
    IF payments[p].invoice_type = "NC"
    THEN /\ payments[p].referenced_document # NullRef
         /\ payments[p].credit_note_reason # NullStr
         /\ payments[p].referenced_document \in DOMAIN payments
         /\ payments[payments[p].referenced_document].invoice_type # "NC"
    ELSE payments[p].referenced_document = NullRef

\* C16: every stored credit note has a referenced document, which is not a
\* credit note, and a reason; every other stored document references none.
C16_CreditNoteRulesHold == \A p \in DOMAIN payments : CreditNoteRules(p)

\* C17: the document a stored credit note references has been signed.
C17_CreditedDocumentSigned ==
    \A p \in DOMAIN payments :
        payments[p].invoice_type = "NC"
        => \E i \in 1 .. Len(signLog) : signLog[i].id = payments[p].referenced_document

\* C18: a credit-note request with a partial amount is accepted only if the
\* amount is greater than 0 and not greater than the grand total of the
\* invoice it credits.
C18_PartialAmountInRange ==
    [][(/\ reply' # reply /\ reply'.view = "issue" /\ reply'.result = "accepted"
        /\ reply'.arg # <<NoAmount>>)
       => (/\ reply'.arg[1] > 0
           /\ reply'.arg[1] <= orders[payments[reply'.pk].order].grandTotal)]_vars

\* C19: a credit note with a reason that references a signed document which
\* is no credit note is accepted by Payment.save, and the step that stores it
\* makes that document its referenced document and leaves the document's row
\* as it was.
C19_CreditNoteOfSignedDocument ==
    /\ [](\A a \in DOMAIN payments, o \in DOMAIN orders :
             (payments[a].is_signed /\ payments[a].invoice_type # "NC")
             => full_clean(payments, orders, nextPk, CreditNoteOf(o, a, "M01")))
    /\ [][\A a \in DOMAIN payments, o \in DOMAIN orders :
             (payments[a].is_signed /\ CreateCreditNote(o, a, "M01"))
             => (/\ payments'[nextPk].referenced_document = a
                 /\ payments'[a] = payments[a])]_vars

\* A stored draft credit note references a stored signed document whose row is
\* as its signing wrote it.
C19_Witness ==
    \E p, a \in DOMAIN payments :
        /\ payments[p].invoice_type = "NC" /\ ~payments[p].is_signed
        /\ payments[p].referenced_document = a /\ payments[p].credit_note_reason = "M01"
        /\ a < p
        /\ payments[a].is_signed
        /\ \E i \in 1 .. Len(signLog) :
              signLog[i].id = a /\ signLog[i].hash = payments[a].invoice_hash

\* What an export entry of the stored row p has to carry.
EntryOf(p) ==
    [InvoiceNo |-> payments[p].invoice_no,
     InvoiceType |-> payments[p].invoice_type,
     InvoiceDate |-> payments[p].invoice_date,
     Hash |-> payments[p].invoice_hash,
     PreviousHash |-> IF payments[p].previous_invoice_hash = EmptyStr
                      THEN Absent ELSE payments[p].previous_invoice_hash]

\* The export has exactly one entry for each stored signed document dated in
\* the range and nothing else.
ExactEntries(entries, d1, d2) ==
    LET due == {p \in DOMAIN payments : /\ payments[p].is_signed
                                         /\ payments[p].invoice_date \in d1 .. d2}
    IN  /\ \A p \in due : Cardinality({i \in 1 .. Len(entries) : entries[i] = EntryOf(p)}) = 1
        /\ \A i \in 1 .. Len(entries) : \E p \in due : entries[i] = EntryOf(p)

\* C20: an export over [d1, d2] has one entry for each stored signed document
\* whose issue date lies in the range and none for any other document, each
\* entry carries the stored hash and previous hash, and the reported number
\* of entries is the number of entries emitted.
C20_ExportIsExact ==
    [][(reply'.result = "exported" /\ reply.result = "counted")
       => (/\ ExactEntries(reply'.arg[4], reply'.arg[1], reply'.arg[2])
           /\ reply'.arg[3] = Len(reply'.arg[4]))]_vars

\* The same without the reported number: the entries are exactly the signed
\* documents of the range.
C20_EntriesOnly ==
    [][(reply'.result = "exported" /\ reply.result = "counted")
       => ExactEntries(reply'.arg[4], reply'.arg[1], reply'.arg[2])]_vars

\* C21: a step of an export changes no stored document: it signs none, gives
\* none a number and leaves the table of documents as it was, for every date
\* range and with sign requests in progress.
C21_ExportReadsOnly ==
    [][(reply' # reply /\ reply'.view = "export")
       => (payments' = payments /\ nextPk' = nextPk /\ signLog' = signLog)]_vars

\* An export has emitted an entry while a draft is stored and a sign request
\* is in progress.
C21_Witness ==
    /\ reply.view = "export" /\ reply.result = "exported"
    /\ Len(reply.arg[4]) > 0
    /\ \E p \in DOMAIN payments : ~payments[p].is_signed
    /\ pc["w1"] \in {"number", "chain", "save_check", "save_write"}

\* C22: the iud of every stored signed document has 45 characters and is the
\* iud that its type, issue date and invoice number give, and no two stored
\* documents hold the same iud.
C22_IudDerivedAndUnique ==
    /\ \A p \in DOMAIN payments :
          payments[p].is_signed
          => (/\ payments[p].iud # Null
              /\ payments[p].iud[4] = 45
              /\ payments[p].iud = generate_iud(payments[p]))
    /\ \A p, q \in DOMAIN payments :
          (p # q /\ payments[p].iud # Null) => payments[p].iud # payments[q].iud

\* Two signed documents are stored, one that carried its date before it was
\* signed on a later day and one dated by its signing.
C22_Witness ==
    \E p, q \in DOMAIN payments :
        /\ p # q /\ payments[p].is_signed /\ payments[q].is_signed
        /\ payments[p].invoice_date < today
        /\ payments[q].invoice_date = today
        /\ \E i, j \in 1 .. Len(signLog) : i < j /\ signLog[i].id = q /\ signLog[j].id = p

\* The number worker w holds for its draft is stored on another row.
NumberTaken(w) ==
    \E q \in DOMAIN payments \ {pk[w]} : payments[q].invoice_no = inst[w].invoice_no

\* C23: a sign request for a draft nobody else signs, whose number was taken
\* by a concurrent signer of another draft, is not answered with an error for
\* that: the allocation is tried again and the request succeeds.
C23_ContentionRetried ==
    [][\A w \in Workers :
          (/\ op[w] = "sign" /\ ~wasSigned[w]
           /\ pc[w] \in {"save_check", "save_write"} /\ pc'[w] = "failed"
           /\ pk[w] \in DOMAIN payments /\ ~payments[pk[w]].is_signed)
          => ~NumberTaken(w)]_vars

\* Views that need a signed document.
SignedOnlyViews == {"validate", "generate", "download"}

\* C24: hash validation, e-Fatura generation and e-Fatura download of a draft
\* are answered with the error that the document is not signed, and the step
\* changes no stored document and signs nothing.
C24_DraftRejectedUntouched ==
    [][(/\ reply' # reply /\ reply'.view \in SignedOnlyViews
        /\ ~payments[reply'.pk].is_signed)
       => (/\ reply'.result = "not_signed"
           /\ payments' = payments /\ signLog' = signLog)]_vars

\* An e-Fatura generation for a draft has been refused, the draft is stored
\* as a blank draft and another document is signed.
C24_Witness ==
    /\ reply.view = "generate" /\ reply.result = "not_signed"
    /\ reply.pk \in DOMAIN payments /\ BlankDraft(payments[reply.pk])
    /\ \E q \in DOMAIN payments : payments[q].is_signed

\* The number the stored numbers of a type give on a day: 1 when no stored
\* document of the series, year and type has a number, else one more than the
\* largest of their numeric suffixes.
LargestPlusOne(db, invoice_type, day) ==
    LET rows == NumberedRows(db, series_map(invoice_type), YearOf(day), invoice_type)
    IN  IF rows = {} THEN 1 ELSE Max({ParseInt(db[p].invoice_no[3]) : p \in rows}) + 1

\* C25: the number a sign request allocates is 1 when no stored document of
\* the series, year and type has a number, and else one more than the largest
\* numeric suffix stored for that series, year and type, also when that
\* suffix has more than five digits.
C25_NextIsLargestPlusOne ==
    [][\A w \in Workers :
          (pc[w] = "number" /\ pc'[w] = "chain" /\ inst[w].invoice_no = NullNo)
          => ParseInt(inst'[w].invoice_no[3])
                = LargestPlusOne(payments, inst[w].invoice_type, today)]_vars

\* C26: where requests are served one at a time, no step of a sign request
\* for a payment that was a draft when the view loaded it ends the request
\* with an error, whatever the type of the draft and whatever was signed
\* before.
C26_LoneSignerSucceeds ==
    [][\A w \in Workers :
          (op[w] = "sign" /\ ~wasSigned[w] /\ pc[w] \in {"number", "chain", "save_check", "save_write"})
          => pc'[w] # "failed"]_vars

\* C27: every stored document marked signed holds a number, a date, a hash,
\* a previous hash (which may be empty), an iud and the time of signing, and
\* every stored document not marked signed holds no hash, no iud and no time
\* of signing.
C27_SignedFieldsComplete ==
    \A p \in DOMAIN payments :
        IF payments[p].is_signed
        THEN /\ payments[p].invoice_no # NullNo
             /\ payments[p].invoice_date # NullDate
             /\ payments[p].invoice_hash \notin {Null, EmptyStr}
             /\ payments[p].previous_invoice_hash # Null
             /\ payments[p].iud # Null
             /\ payments[p].signed_at # 0
        ELSE /\ payments[p].invoice_hash = Null
             /\ payments[p].iud = Null
             /\ payments[p].signed_at = 0

\* A document signed by a sign-and-submit request that stored customer data
\* first is stored, and a change of its payment status went through before.
C27_Witness ==
    /\ \E p \in DOMAIN payments :
          payments[p].is_signed /\ payments[p].customer_tax_id = "NIF"
    /\ \E w \in Workers : op[w] = "change" /\ pc[w] = "ok"

\* C28: the year in the invoice number of every stored signed document is the
\* year of its issue date.
C28_NumberYearIsDateYear ==
    \A p \in DOMAIN payments :
        payments[p].is_signed => payments[p].invoice_no[2] = YearOf(payments[p].invoice_date)

\* C29: the document a stored credit note references is stored, and no step
\* removes a document that a stored credit note references, be it the delete
\* of the document or the delete of its order.
C29_ReferencedDocumentStays ==
    /\ [](\A p \in DOMAIN payments :
             payments[p].referenced_document # NullRef
             => payments[p].referenced_document \in DOMAIN payments)
    /\ [][\A a \in DOMAIN payments :
             (\E q \in DOMAIN payments : payments[q].referenced_document = a)
             => a \in DOMAIN payments']_vars

\* A delete request has been refused (no document is signed, so for a
\* reference), and the only document that is referenced, by a credit note of
\* another order, is stored as a draft.
C29_Witness ==
    \E a, q \in DOMAIN payments, w \in Workers :
        /\ payments[q].referenced_document = a
        /\ payments[q].order # payments[a].order
        /\ \A r \in DOMAIN payments : payments[r].referenced_document \in {NullRef, a}
        /\ ~payments[a].is_signed
        /\ op[w] = "delete" /\ pc[w] = "failed"

\* C30: where requests are served one at a time, drafts being created without
\* customer data, a sign-and-submit request that has ended with an error has
\* stored no customer data: every stored document that carries a customer tax
\* id is signed.
C30_FailedSubmitStoresNothing ==
    \A w \in Workers :
        (op[w] = "submit" /\ pc[w] = "failed")
        => \A p \in DOMAIN payments :
              payments[p].customer_tax_id # NullStr => payments[p].is_signed

====
